---- MODULE Spec2Model ----
(***************************************************************************)
(* Model of the Pro Clubs stats tracker: the polling loop of main.py, the  *)
(* MatchPlayerParser of Match_Parser.py (normalisation, change detection,  *)
(* history merge, export), PlayerStatsParser.parse_stats and the sink of   *)
(* Send_To_Sheets.py.                                                      *)
(*                                                                         *)
(* Two files on disk carry state between steps: club_matches.csv (the last *)
(* exported fetch) and most_recent_matches.csv (the history).  Both are    *)
(* written with DataFrame.to_csv and read back with pandas.read_csv, which *)
(* turns a column of digit strings into an int64 column.  Identifiers are  *)
(* therefore modelled as typed cells: Str(n) is the Python str whose text  *)
(* is the decimal numeral n, Int(n) is the integer n.  A cell written to a *)
(* file is its text n; a cell read from a file is Int(n).                  *)
(***************************************************************************)
EXTENDS Naturals, Sequences, FiniteSets, TLC

\* ---------------------------------------------------------------- bounds
\* matches completed upstream during a run
MaxMatchId == 2
\* iterations of the polling loop of main()
MaxCycles == 3
\* calls made on one MatchPlayerParser by a direct caller
MaxCalls == 4
\* raw records of a club_matches.csv file handed to parse_csv
MaxRecords == 2

\* ------------------------------------------------------------- constants
\* maxResultCount of the clubs/matches request
MaxResultCount == 10
\* club_id of main() and of parse_stats()
TargetClub == "3439844"
OtherClub == "777"
\* the timeAgo display strings a fetch can carry (it changes between fetches)
TimeAgos == {"1 hours", "2 hours"}

\* ----------------------------------------------------------- typed cells
Str(n) == <<"str", n>>
Int(n) == <<"int", n>>
\* str(x) / Series.astype(str)
PyStr(cell) == Str(cell[2])
\* the text DataFrame.to_csv writes for a cell
CsvText(cell) == cell[2]

\* a Python str that is no numeral (int() and float() reject it)
Word(k) == <<"word", k>>
\* int(x): the integer of an int or of a numeral string, ValueError otherwise
IsNumeric(cell) == cell[1] \in {"str", "int"}
PyInt(cell) == cell[2]

\* ------------------------------------------------------ upstream records
\* rawStatMap of one player, as the upstream delivers it: every stat is a
\* numeral string; the player ids of a mapping stand for the str keys Str(id)
RawStats(name, g, a, p, t, r) ==
    [playername |-> name, archetypeid |-> Str(12), goals |-> Str(g),
     assists |-> Str(a), passesmade |-> Str(p), tacklesmade |-> Str(t),
     redcards |-> Str(r)]

\* players mappings (clubId -> playerId -> rawStatMap) a match can carry,
\* each an ordered sequence of <<clubId, <<playerId, rawStatMap>>...>>
NoPlayers == << >>
HomeOnly ==
    << <<TargetClub, << <<1, RawStats("Alice", 2, 1, 9, 3, 0)>>,
                        <<3, RawStats("Carol", 0, 2, 6, 1, 0)>> >> >> >>
BothClubs ==
    << <<TargetClub, << <<1, RawStats("Alice", 0, 1, 7, 2, 1)>> >> >>,
       <<OtherClub, << <<2, RawStats("Bob", 1, 0, 5, 4, 0)>> >> >> >>
Lineups == {NoPlayers, HomeOnly, BothClubs}

\* ------------------------------------------------- literals of the players
\* str(dict) writes a str leaf in quotes and an int leaf as a numeral;
\* ast.literal_eval reads a quoted leaf back as the str and a numeral as an int
ReprLeaf(leaf) ==
    IF leaf[1] = "int" THEN <<"numeral", leaf[2]>> ELSE <<"quoted", leaf>>
EvalLeaf(token) ==
    IF token[1] = "numeral" THEN Int(token[2]) ELSE token[2]

\* the fields whose value is plain text (a name, a position)
TextFields == {"playername", "pos"}
ReprStats(m) ==
    [f \in DOMAIN m |-> IF f \in TextFields THEN <<"quoted", m[f]>>
                        ELSE ReprLeaf(m[f])]
EvalStats(m) ==
    [f \in DOMAIN m |-> IF f \in TextFields THEN m[f][2] ELSE EvalLeaf(m[f])]

\* the players cell of a raw record: a structured mapping, the text of a
\* literal, text that is no literal, or no value at all (NaN)
Structured(lineup) == [kind |-> "dict", body |-> lineup]
MalformedText == [kind |-> "malformed", body |-> << >>]
MissingPlayers == [kind |-> "nan", body |-> << >>]

\* repr(row['players']): text handed in comes back as a quoted string, which
\* evaluates to a str and not to a mapping
PlayersRepr(cell) ==
    CASE cell.kind = "dict" ->
            [kind |-> "text",
             body |-> [c \in 1..Len(cell.body) |->
                        <<<<"quoted", cell.body[c][1]>>,
                          [k \in 1..Len(cell.body[c][2]) |->
                              <<ReprLeaf(Str(cell.body[c][2][k][1])),
                                ReprStats(cell.body[c][2][k][2])>>]>>]]
      [] cell.kind = "nan" -> MalformedText
      [] OTHER -> [kind |-> "quoted", body |-> << >>]

\* str(row['players'])
PlayersStr(cell) ==
    CASE cell.kind = "dict" ->
            [kind |-> "text",
             body |-> [c \in 1..Len(cell.body) |->
                        <<<<"quoted", cell.body[c][1]>>,
                          [k \in 1..Len(cell.body[c][2]) |->
                              <<ReprLeaf(Str(cell.body[c][2][k][1])),
                                ReprStats(cell.body[c][2][k][2])>>]>>]]
      [] cell.kind = "nan" -> MalformedText
      [] OTHER -> cell

\* ast.literal_eval(players_str): the mapping, with its player ids as the key
\* cells read, or ValueError / SyntaxError
literal_eval(text) ==
    IF text.kind = "text"
    THEN [ok |-> TRUE,
          value |-> [c \in 1..Len(text.body) |->
                       <<text.body[c][1][2],
                         [k \in 1..Len(text.body[c][2]) |->
                             <<EvalLeaf(text.body[c][2][k][1]),
                               EvalStats(text.body[c][2][k][2])>>]>>]]
    ELSE [ok |-> FALSE, value |-> << >>]

VARIABLES
    upstream,              \* players mapping of every match completed so far
    csv_file,              \* club_matches.csv
    most_recent_file,      \* most_recent_matches.csv
    matches,               \* MatchPlayerParser.matches
    new_matches_detected,  \* MatchPlayerParser.new_matches_detected
    new_match_ids,         \* match ids the last detection classified as new
    lastCall,              \* last call made on the parser and its outcome
    prevCall,              \* the call made before it
    calls,                 \* number of calls made by a direct caller
    pc,                    \* position of main() in its loop
    cycle,                 \* iterations of the loop started so far
    matches_df,            \* result of this cycle's fetch
    newest_json,           \* newest_match.json
    payloads,              \* payloads of this cycle not yet sent
    sent,                  \* payloads the sink accepted, with their match id
    error,                 \* exception that ended main(), if any
    log,                   \* steps main() has completed in this cycle
    response,              \* what the upstream answered to this cycle's request
    fetched,               \* rows of the DataFrame this cycle's fetch returned
    last_error,            \* FC26_API._last_error
    record,                \* a raw record handed to _parse_match_row
    match_data             \* what _parse_match_row made of it

vars == <<upstream, csv_file, most_recent_file, matches, new_matches_detected,
          new_match_ids, lastCall, prevCall, calls, pc, cycle, matches_df,
          newest_json, payloads, sent, error, log, response, fetched,
          last_error, record, match_data>>

parserVars == <<matches, new_matches_detected, new_match_ids>>
callVars == <<lastCall, prevCall, calls>>
apiVars == <<response, fetched, last_error>>
mainVars == <<pc, cycle, matches_df, newest_json, payloads, sent, error, log,
              apiVars>>
recordVars == <<record, match_data>>

\* ------------------------------------------------------------- sequences
RECURSIVE Flatten(_)
Flatten(ss) == IF ss = << >> THEN << >> ELSE Head(ss) \o Flatten(Tail(ss))

RECURSIVE KeepIndices(_, _, _)
KeepIndices(s, keep, i) ==
    IF i > Len(s) THEN << >>
    ELSE (IF i \in keep THEN <<s[i]>> ELSE << >>) \o KeepIndices(s, keep, i + 1)

Range(s) == {s[i] : i \in 1..Len(s)}

\* ---------------------------------------------------------------- files
AbsentFile == [state |-> "absent", rows |-> << >>]
\* a file to_csv wrote from a DataFrame without columns: no header, no rows
BlankFile == [state |-> "blank", rows |-> << >>]
TableFile(rows) == [state |-> "table", rows |-> rows]

\* the batch the upstream returns: every match so far, most recent first,
\* at most MaxResultCount of them
RECURSIVE Descending(_, _)
Descending(hi, n) ==
    IF n = 0 \/ hi = 0 THEN << >> ELSE <<hi>> \o Descending(hi - 1, n - 1)

FetchedBatch(up, ago) ==
    LET ids == Descending(Len(up), MaxResultCount)
    IN [i \in 1..Len(ids) |->
           [matchId |-> ids[i], timeAgo |-> ago,
            players |-> Structured(up[ids[i]])]]

\* ------------------------------------------------------------- FC26_API
\* what the upstream can answer to the clubs/matches request: no answer in
\* time, a status that is no 2xx, a body that is no JSON, the JSON null, rows
\* without the timestamp column, rows without the clubs column, the rows
Responses ==
    {"timeout", "http_error", "bad_json", "null", "no_timestamp", "no_clubs",
     "rows"}

NoError == "None"

\* _request_builder(): the DataFrame of the payload, or the FC26APIError
request_builder(resp, batch) ==
    CASE resp \in {"timeout", "http_error"} ->
            [raised |-> "Request failed", rows |-> << >>]
      [] resp = "bad_json" ->
            [raised |-> "Failed to decode JSON", rows |-> << >>]
      [] resp = "null" -> [raised |-> NoError, rows |-> << >>]
      [] OTHER -> [raised |-> NoError, rows |-> batch]

\* a wrapper that records a failure and leaves the record of an earlier one
\* in place on success
handle_api_call_keeping_error(resp, batch, err) ==
    LET built == request_builder(resp, batch)
    IN IF built.raised = NoError
       THEN [result |-> "df", rows |-> built.rows, last_error |-> err]
       ELSE [result |-> "None", rows |-> << >>, last_error |-> built.raised]

\* _handle_api_call(): the DataFrame and _last_error = None, or None and the
\* error in _last_error
handle_api_call(resp, batch, err) ==
    LET built == request_builder(resp, batch)
    IN IF built.raised = NoError
       THEN [result |-> "df", rows |-> built.rows, last_error |-> NoError]
       ELSE [result |-> "None", rows |-> << >>, last_error |-> built.raised]

\* get_club_matches_normalized(): None, the empty DataFrame, or the rows with
\* the timestamp converted and the clubs column flattened
get_club_matches_normalized(resp, batch, err) ==
    LET called == handle_api_call(resp, batch, err)
    IN CASE called.result = "None" ->
               [result |-> "None", rows |-> << >>,
                last_error |-> called.last_error]
         [] called.rows = << >> ->
               [result |-> "empty", rows |-> << >>,
                last_error |-> called.last_error]
         [] resp = "no_timestamp" ->
               [result |-> "None", rows |-> << >>,
                last_error |-> "Column 'timestamp' not found"]
         [] resp = "no_clubs" ->
               [result |-> "None", rows |-> << >>,
                last_error |-> "Expected nested column 'clubs' missing"]
         [] OTHER ->
               [result |-> "data", rows |-> called.rows,
                last_error |-> called.last_error]

\* FC26_API.export_dataframe(df, "club_matches.csv"): to_csv writes the
\* players mapping of every record as the text str() gives it
export_dataframe(batch) ==
    TableFile([i \in 1..Len(batch) |->
                  [batch[i] EXCEPT !.players = PlayersStr(@)]])

\* what an interrupted to_csv leaves of the file it was writing: the file is
\* opened for writing (emptied), then the header and the rows follow in order
InterruptedWrites(file) ==
    {BlankFile} \cup {TableFile(SubSeq(file.rows, 1, n)) :
                         n \in 0..(Len(file.rows) - 1)}

\* ------------------------------------------------------------ pandas I/O
\* pandas.read_csv on club_matches.csv: matchId is a column of numerals and is
\* read as integers; the players cell is text that ast.literal_eval decodes
read_club_matches(file) ==
    [i \in 1..Len(file.rows) |->
        [matchId |-> Int(file.rows[i].matchId),
         timeAgo |-> file.rows[i].timeAgo,
         players |-> file.rows[i].players]]

\* pandas.read_csv on most_recent_matches.csv: the matchId and player_id
\* columns hold numerals only and are read as integers
read_most_recent(file) ==
    [i \in 1..Len(file.rows) |->
        [file.rows[i] EXCEPT !.matchId = Int(@), !.player_id = Int(@)]]

\* DataFrame.to_csv: every cell is written as its text
to_csv(rows) ==
    [i \in 1..Len(rows) |->
        [rows[i] EXCEPT !.matchId = CsvText(@), !.player_id = CsvText(@)]]

\* DataFrame.drop_duplicates(subset=['matchId', 'player_id'], keep='last'):
\* two rows are duplicates when their key cells are equal as Python objects
drop_duplicates(rows) ==
    LET dup(i) == \E j \in (i + 1)..Len(rows) :
                      /\ rows[j].matchId = rows[i].matchId
                      /\ rows[j].player_id = rows[i].player_id
    IN KeepIndices(rows, {i \in 1..Len(rows) : ~dup(i)}, 1)

\* ------------------------------------------------------- MatchPlayerParser
\* player_stats.get(field, default)
Get(m, field, default) == IF field \in DOMAIN m THEN m[field] ELSE default

NumericFields ==
    {"goals", "assists", "passesmade", "passattempts", "tacklesmade",
     "redcards"}

\* lookups player_stats[field] in place of player_stats.get(field, default):
\* a stat map that lacks a field raises KeyError
StatsCoercible_all_required(m) ==
    /\ NumericFields \subseteq DOMAIN m
    /\ \A f \in NumericFields : IsNumeric(m[f])

\* the PlayerStats(...) call raises ValueError when int() rejects a field
StatsCoercible(m) ==
    \A f \in NumericFields : IsNumeric(Get(m, f, Int(0)))

\* every player filed under the club of main(), whatever key it is listed under
PlayerStatsOf_home_club(club_id, entry) ==
    [player_id |-> entry[1],
     player_name |-> Get(entry[2], "playername", "Unknown"),
     club_id |-> TargetClub,
     position |-> Get(entry[2], "pos", "Unknown"),
     archetype_id |-> Get(entry[2], "archetypeid", Str(0)),
     goals |-> PyInt(Get(entry[2], "goals", Int(0))),
     assists |-> PyInt(Get(entry[2], "assists", Int(0))),
     passes |-> PyInt(Get(entry[2], "passesmade", Int(0))),
     pass_attempts |-> PyInt(Get(entry[2], "passattempts", Int(0))),
     tackles |-> PyInt(Get(entry[2], "tacklesmade", Int(0))),
     redcards |-> PyInt(Get(entry[2], "redcards", Int(0)))]

PlayerStatsOf(club_id, entry) ==
    [player_id |-> entry[1],
     player_name |-> Get(entry[2], "playername", "Unknown"),
     club_id |-> club_id,
     position |-> Get(entry[2], "pos", "Unknown"),
     archetype_id |-> Get(entry[2], "archetypeid", Str(0)),
     goals |-> PyInt(Get(entry[2], "goals", Int(0))),
     assists |-> PyInt(Get(entry[2], "assists", Int(0))),
     passes |-> PyInt(Get(entry[2], "passesmade", Int(0))),
     pass_attempts |-> PyInt(Get(entry[2], "passattempts", Int(0))),
     tackles |-> PyInt(Get(entry[2], "tacklesmade", Int(0))),
     redcards |-> PyInt(Get(entry[2], "redcards", Int(0)))]

NoMatch == [match_id |-> Str(0), time_ago |-> "", players_by_club |-> << >>]

\* _parse_match_row(row): the MatchData, or the exception it raises
parse_match_row(row) ==
    LET players_data == literal_eval(PlayersStr(row.players))
        data == players_data.value
    IN IF ~players_data.ok
          \/ \E c \in 1..Len(data) : \E k \in 1..Len(data[c][2]) :
                ~StatsCoercible(data[c][2][k][2])
       THEN [ok |-> FALSE, match |-> NoMatch]
       ELSE [ok |-> TRUE,
             match |->
               [match_id |-> PyStr(row.matchId),
                time_ago |-> row.timeAgo,
                players_by_club |->
                   [c \in 1..Len(data) |->
                       <<data[c][1],
                         [k \in 1..Len(data[c][2]) |->
                             PlayerStatsOf(data[c][1], data[c][2][k])]>>]]]

\* a loop without the try/except: the first row that raises ends it
RECURSIVE AppendParsed_aborting(_, _)
AppendParsed_aborting(ms, df) ==
    IF df = << >> THEN ms
    ELSE LET parsed == parse_match_row(Head(df))
         IN IF parsed.ok
            THEN AppendParsed_aborting(Append(ms, parsed.match), Tail(df))
            ELSE ms

\* the rows of df.iterrows() appended to the list, a row whose
\* _parse_match_row raises being skipped
RECURSIVE AppendParsed(_, _)
AppendParsed(ms, df) ==
    IF df = << >> THEN ms
    ELSE LET parsed == parse_match_row(Head(df))
         IN AppendParsed(IF parsed.ok THEN Append(ms, parsed.match) ELSE ms,
                         Tail(df))

\* the matches list after parse_csv: the parsed rows are appended to it
ParsedInto(ms, file) == AppendParsed(ms, read_club_matches(file))

load_most_recent_matches(file) ==
    CASE file.state = "absent" -> [kind |-> "None", rows |-> << >>]
      [] file.state = "blank" -> [kind |-> "EmptyDataError", rows |-> << >>]
      [] OTHER -> [kind |-> "df", rows |-> read_most_recent(file)]

\* the known ids taken from the column as read, without astype(str)
existing_match_ids_as_read(df) == {df[i].matchId : i \in 1..Len(df)}

\* set(most_recent_df['matchId'].astype(str))
existing_match_ids(df) == {PyStr(df[i].matchId) : i \in 1..Len(df)}
\* set([m.match_id for m in self.matches])
current_match_ids(ms) == {ms[i].match_id : i \in 1..Len(ms)}

\* a detection that leaves the flag as it is when it finds nothing new
CheckOutcome_flag_kept(ms, file, flag, ids) ==
    LET loaded == load_most_recent_matches(file)
        new == current_match_ids(ms) \ existing_match_ids(loaded.rows)
    IN IF ms = << >>
       THEN [result |-> "False", flag |-> flag, new |-> ids]
       ELSE CASE loaded.kind = "EmptyDataError" ->
                    [result |-> "EmptyDataError", flag |-> flag, new |-> ids]
              [] loaded.kind = "None" ->
                    [result |-> "True", flag |-> TRUE,
                     new |-> current_match_ids(ms)]
              [] OTHER ->
                    IF new # {}
                    THEN [result |-> "True", flag |-> TRUE, new |-> new]
                    ELSE [result |-> "False", flag |-> flag, new |-> new]

\* outcome of check_for_new_matches(): what it returns or raises, the flag
\* and the ids classified as new afterwards
CheckOutcome(ms, file, flag, ids) ==
    LET loaded == load_most_recent_matches(file)
        new == current_match_ids(ms) \ existing_match_ids(loaded.rows)
    IN IF ms = << >>
       THEN [result |-> "False", flag |-> flag, new |-> ids]
       ELSE CASE loaded.kind = "EmptyDataError" ->
                    [result |-> "EmptyDataError", flag |-> flag, new |-> ids]
              [] loaded.kind = "None" ->
                    [result |-> "True", flag |-> TRUE,
                     new |-> current_match_ids(ms)]
              [] OTHER ->
                    IF new # {}
                    THEN [result |-> "True", flag |-> TRUE, new |-> new]
                    ELSE [result |-> "False", flag |-> FALSE, new |-> new]

\* current_matches_data of update_most_recent_matches()
MatchRows(m) ==
    Flatten([c \in 1..Len(m.players_by_club) |->
        [k \in 1..Len(m.players_by_club[c][2]) |->
            LET player == m.players_by_club[c][2][k]
            IN [matchId |-> m.match_id,
                timeAgo |-> m.time_ago,
                club_id |-> player.club_id,
                player_id |-> player.player_id,
                player_name |-> player.player_name,
                goals |-> player.goals,
                assists |-> player.assists,
                passes |-> player.passes,
                tackles |-> player.tackles,
                redcards |-> player.redcards]]])

current_matches_data(ms) == Flatten([i \in 1..Len(ms) |-> MatchRows(ms[i])])

\* an update that writes the rows of the matches not yet in the history in
\* place of the file
UpdateOutcome_new_rows_only(ms, file) ==
    LET loaded == load_most_recent_matches(file)
        current == current_matches_data(ms)
        fresh == KeepIndices(current,
                     {i \in 1..Len(current) :
                         current[i].matchId \notin existing_match_ids(loaded.rows)},
                     1)
    IN IF ms = << >>
       THEN [result |-> "None", file |-> file]
       ELSE CASE loaded.kind = "EmptyDataError" ->
                    [result |-> "EmptyDataError", file |-> file]
              [] OTHER ->
                    [result |-> "None",
                     file |-> IF fresh = << >> THEN BlankFile
                              ELSE TableFile(to_csv(fresh))]

\* outcome of update_most_recent_matches(): what it returns or raises and
\* the history file afterwards
UpdateOutcome(ms, file) ==
    LET loaded == load_most_recent_matches(file)
        current == current_matches_data(ms)
    IN IF ms = << >>
       THEN [result |-> "None", file |-> file]
       ELSE CASE loaded.kind = "EmptyDataError" ->
                    [result |-> "EmptyDataError", file |-> file]
              [] loaded.kind = "df" ->
                    [result |-> "None",
                     file |-> TableFile(to_csv(
                                  drop_duplicates(loaded.rows \o current)))]
              [] OTHER ->
                    [result |-> "None",
                     file |-> IF current = << >> THEN BlankFile
                              ELSE TableFile(to_csv(current))]

\* export_most_recent_match_to_json(): the first match of the list
NoJson == [match_id |-> Str(0), time_ago |-> "", clubs |-> << >>]
export_most_recent_match_to_json(ms, json) ==
    IF ms = << >> THEN json
    ELSE [match_id |-> ms[1].match_id,
          time_ago |-> ms[1].time_ago,
          clubs |-> ms[1].players_by_club]

\* ------------------------------------------------------- PlayerStatsParser
stats_to_check == <<"goals", "assists", "passes", "tackles", "redcards">>

\* stat.replace('_', ' ').title()
StatLabel(stat) ==
    CASE stat = "goals" -> "Goals"
      [] stat = "assists" -> "Assists"
      [] stat = "passes" -> "Passes"
      [] stat = "tackles" -> "Tackles"
      [] stat = "redcards" -> "Redcards"

\* data[0]['clubs'][club_id]: the players listed under the club, or KeyError
HasClub(json, club_id) == \E c \in 1..Len(json.clubs) : json.clubs[c][1] = club_id
ClubPlayers(json, club_id) ==
    json.clubs[CHOOSE c \in 1..Len(json.clubs) : json.clubs[c][1] = club_id][2]

\* payloads built stat by stat, every player under each stat
parse_stats_stat_major(json) ==
    LET players == ClubPlayers(json, TargetClub)
    IN Flatten([s \in 1..Len(stats_to_check) |->
           [k \in 1..Len(players) |->
               <<players[k].player_name, StatLabel(stats_to_check[s]),
                 players[k][stats_to_check[s]]>>]])

parse_stats(json) ==
    LET players == ClubPlayers(json, TargetClub)
    IN Flatten([k \in 1..Len(players) |->
           [s \in 1..Len(stats_to_check) |->
               <<players[k].player_name, StatLabel(stats_to_check[s]),
                 players[k][stats_to_check[s]]>>]])

\* ------------------------------------------------------------ raw records
\* a stat map whose goals field is present but no numeral, and stat maps that
\* carry only some of the fields (one of them with more passes made than
\* attempted)
NonNumeric ==
    << <<TargetClub,
         << <<1, [RawStats("Alice", 2, 1, 9, 3, 0) EXCEPT !.goals = Word("n/a")]>> >> >> >>
Sparse ==
    << <<TargetClub,
         << <<4, [playername |-> "Dave", goals |-> Str(1),
                  passesmade |-> Str(9), passattempts |-> Str(5)]>>,
            <<5, [pos |-> "midfielder"]>> >> >> >>

\* the players cells a raw record can carry
RawPlayers ==
    {Structured(l) : l \in Lineups \cup {NonNumeric, Sparse}}
        \cup {MalformedText, MissingPlayers}

\* raw records as _parse_match_row receives them from df.iterrows()
RawRecords ==
    {[matchId |-> Int(id), timeAgo |-> "1 hours", players |-> p] :
        id \in 1..MaxMatchId, p \in RawPlayers}

\* club_matches.csv files of up to MaxRecords raw records: to_csv has written
\* a structured cell as its text and a missing one as an empty cell
RawFiles ==
    UNION {{TableFile([i \in 1..n |->
                         [matchId |-> i, timeAgo |-> "1 hours",
                          players |-> IF f[i].kind = "dict"
                                      THEN PlayersStr(f[i]) ELSE f[i]]]) :
               f \in [1..n -> RawPlayers]} : n \in 0..MaxRecords}

NoRecord == [matchId |-> Int(0), timeAgo |-> "", players |-> MissingPlayers]
NotParsed ==
    [done |-> FALSE, structured |-> [ok |-> FALSE, match |-> NoMatch],
     literal |-> [ok |-> FALSE, match |-> NoMatch]]

\* ------------------------------------------------------------------ Init
Init ==
    /\ upstream = << >>
    /\ csv_file = AbsentFile
    /\ most_recent_file = AbsentFile
    /\ matches = << >>
    /\ new_matches_detected = FALSE
    /\ new_match_ids = {}
    /\ lastCall = [op |-> "init", result |-> "None"]
    /\ prevCall = [op |-> "init", result |-> "None"]
    /\ calls = 0
    /\ pc = "fetch"
    /\ cycle = 0
    /\ matches_df = "None"
    /\ newest_json = NoJson
    /\ payloads = << >>
    /\ sent = << >>
    /\ error = "none"
    /\ log = << >>
    /\ response = "none"
    /\ fetched = << >>
    /\ last_error = NoError
    /\ record = NoRecord
    /\ match_data = NotParsed

\* ----------------------------------------------------------- environment
\* a match is completed upstream (while the tracker is between two fetches
\* and a direct caller has calls left to see it)
PlayMatch ==
    /\ pc = "fetch"
    /\ calls < MaxCalls
    /\ Len(upstream) < MaxMatchId
    /\ \E l \in Lineups : upstream' = Append(upstream, l)
    /\ UNCHANGED <<recordVars, csv_file, most_recent_file, parserVars, callVars,
                   mainVars>>

\* ------------------------------------- a direct caller of MatchPlayerParser
\* FC26_API.entry_point(): a successful non-empty fetch is exported to
\* club_matches.csv
entry_point ==
    /\ calls < MaxCalls
    /\ upstream # << >>
    /\ \E ago \in TimeAgos : csv_file' = export_dataframe(FetchedBatch(upstream, ago))
    /\ UNCHANGED <<recordVars, upstream, most_recent_file, parserVars, callVars,
                   mainVars>>

\* MatchPlayerParser("club_matches.csv"): a new parser replaces one that has
\* parsed something (one that has not is as new)
new_parser ==
    /\ calls < MaxCalls
    /\ matches # << >>
    /\ calls' = calls + 1
    /\ prevCall' = lastCall
    /\ lastCall' = [op |-> "__init__", result |-> "None"]
    /\ matches' = << >>
    /\ new_matches_detected' = FALSE
    /\ UNCHANGED <<recordVars, upstream, csv_file, most_recent_file,
                   new_match_ids,
                   mainVars>>

parse_csv ==
    /\ calls < MaxCalls
    /\ calls' = calls + 1
    /\ prevCall' = lastCall
    /\ IF csv_file.state = "absent"
       THEN /\ lastCall' = [op |-> "parse_csv", result |-> "FileNotFoundError"]
            /\ UNCHANGED matches
       ELSE /\ lastCall' = [op |-> "parse_csv", result |-> "matches"]
            /\ matches' = ParsedInto(matches, csv_file)
    /\ UNCHANGED <<recordVars, upstream, csv_file, most_recent_file,
                   new_matches_detected,
                   new_match_ids, mainVars>>

\* a detection that commits the batch to the history when it finds a new match
check_for_new_matches_committing ==
    /\ calls < MaxCalls
    /\ calls' = calls + 1
    /\ prevCall' = lastCall
    /\ LET out == CheckOutcome(matches, most_recent_file,
                               new_matches_detected, new_match_ids)
       IN /\ lastCall' = [op |-> "check_for_new_matches", result |-> out.result]
          /\ new_matches_detected' = out.flag
          /\ new_match_ids' = out.new
          /\ most_recent_file' =
                 IF out.result = "True"
                 THEN UpdateOutcome(matches, most_recent_file).file
                 ELSE most_recent_file
    /\ UNCHANGED <<recordVars, upstream, csv_file, matches, mainVars>>

check_for_new_matches ==
    /\ calls < MaxCalls
    /\ calls' = calls + 1
    /\ prevCall' = lastCall
    /\ LET out == CheckOutcome(matches, most_recent_file,
                               new_matches_detected, new_match_ids)
       IN /\ lastCall' = [op |-> "check_for_new_matches", result |-> out.result]
          /\ new_matches_detected' = out.flag
          /\ new_match_ids' = out.new
    /\ UNCHANGED <<recordVars, upstream, csv_file, most_recent_file, matches,
                   mainVars>>

update_most_recent_matches ==
    /\ calls < MaxCalls
    /\ calls' = calls + 1
    /\ prevCall' = lastCall
    /\ LET out == UpdateOutcome(matches, most_recent_file)
       IN /\ lastCall' = [op |-> "update_most_recent_matches",
                          result |-> out.result]
          /\ most_recent_file' = out.file
    /\ UNCHANGED <<recordVars, upstream, csv_file, parserVars, mainVars>>

NextParser ==
    \/ PlayMatch
    \/ entry_point
    \/ new_parser
    \/ parse_csv
    \/ check_for_new_matches
    \/ update_most_recent_matches

SpecParser == Init /\ [][NextParser]_vars

\* ------------------------------------------------- normalisation on its own
\* _parse_match_row on one raw record, given with its structured players
\* mapping and given with the literal text of that mapping
normalize_record ==
    /\ ~match_data.done
    /\ match_data' = [done |-> TRUE,
                      structured |-> parse_match_row(record),
                      literal |-> parse_match_row(
                                     [record EXCEPT !.players = PlayersStr(@)])]
    /\ UNCHANGED <<record, upstream, csv_file, most_recent_file, parserVars,
                   callVars, mainVars>>

InitNormalize ==
    /\ csv_file \in RawFiles
    /\ record \in RawRecords
    /\ match_data = NotParsed
    /\ upstream = << >>
    /\ most_recent_file = AbsentFile
    /\ matches = << >>
    /\ new_matches_detected = FALSE
    /\ new_match_ids = {}
    /\ lastCall = [op |-> "init", result |-> "None"]
    /\ prevCall = [op |-> "init", result |-> "None"]
    /\ calls = 0
    /\ pc = "fetch"
    /\ cycle = 0
    /\ matches_df = "None"
    /\ newest_json = NoJson
    /\ payloads = << >>
    /\ sent = << >>
    /\ error = "none"
    /\ log = << >>
    /\ response = "none"
    /\ fetched = << >>
    /\ last_error = NoError

NextNormalize ==
    \/ parse_csv
    \/ normalize_record

SpecNormalize == InitNormalize /\ [][NextNormalize]_vars

\* ---------------------------------------------------------------- main()
Crash(exc) ==
    /\ pc' = "crashed"
    /\ error' = exc

\* line 20: api.get_club_matches_normalized(club_id, "leagueMatch")
MainFetch ==
    /\ pc = "fetch"
    /\ cycle < MaxCycles
    /\ cycle' = cycle + 1
    /\ pc' = "save"
    /\ \E resp \in Responses : \E ago \in TimeAgos :
          LET out == get_club_matches_normalized(
                         resp, FetchedBatch(upstream, ago), last_error)
          IN /\ response' = resp
             /\ matches_df' = out.result
             /\ fetched' = out.rows
             /\ last_error' = out.last_error
    /\ log' = << >>
    /\ UNCHANGED <<recordVars, upstream, csv_file, most_recent_file,
                   parserVars, callVars, newest_json, payloads, sent, error>>

\* lines 23-27: a non-empty result is exported to club_matches.csv;
\* export_dataframe() records a to_csv that raises and returns False
MainSave ==
    /\ pc = "save"
    /\ pc' = "parse"
    /\ IF matches_df = "data"
       THEN \/ /\ csv_file' = export_dataframe(fetched)
               /\ UNCHANGED last_error
            \/ /\ last_error' = "Export failed"
               /\ UNCHANGED csv_file
       ELSE UNCHANGED <<csv_file, last_error>>
    /\ response' = "none"
    /\ fetched' = << >>
    /\ UNCHANGED <<recordVars, upstream, most_recent_file, parserVars,
                   callVars, cycle, matches_df, newest_json, payloads, sent,
                   error, log>>

\* line 31: match_parser.parse_csv()
MainParse ==
    /\ pc = "parse"
    /\ IF csv_file.state = "absent"
       THEN /\ Crash("FileNotFoundError")
            /\ UNCHANGED matches
       ELSE /\ matches' = ParsedInto(matches, csv_file)
            /\ pc' = "check"
            /\ UNCHANGED error
    /\ UNCHANGED <<recordVars, upstream, csv_file, most_recent_file,
                   new_matches_detected,
                   new_match_ids, callVars, apiVars, cycle, matches_df,
                   newest_json, payloads, sent, log>>

\* a loop that goes from a positive detection straight to the export
MainCheck_skipping_update ==
    /\ pc = "check"
    /\ LET out == CheckOutcome(matches, most_recent_file,
                               new_matches_detected, new_match_ids)
       IN /\ new_matches_detected' = out.flag
          /\ new_match_ids' = out.new
          /\ CASE out.result = "True" -> pc' = "export" /\ UNCHANGED error
               [] out.result = "False" -> pc' = "sleep" /\ UNCHANGED error
               [] OTHER -> Crash(out.result)
          /\ log' = IF out.result \in {"True", "False"}
                    THEN Append(log, "detect") ELSE log
    /\ UNCHANGED <<recordVars, upstream, csv_file, most_recent_file, matches,
                   callVars, apiVars, cycle, matches_df, newest_json,
                   payloads, sent>>

\* line 34: if match_parser.check_for_new_matches()
MainCheck ==
    /\ pc = "check"
    /\ LET out == CheckOutcome(matches, most_recent_file,
                               new_matches_detected, new_match_ids)
       IN /\ new_matches_detected' = out.flag
          /\ new_match_ids' = out.new
          /\ CASE out.result = "True" -> pc' = "update" /\ UNCHANGED error
               [] out.result = "False" -> pc' = "sleep" /\ UNCHANGED error
               [] OTHER -> Crash(out.result)
          /\ log' = IF out.result \in {"True", "False"}
                    THEN Append(log, "detect") ELSE log
    /\ UNCHANGED <<recordVars, upstream, csv_file, most_recent_file, matches,
                   callVars, apiVars,
                   cycle, matches_df, newest_json, payloads, sent>>

\* line 38: match_parser.update_most_recent_matches()
MainUpdate ==
    /\ pc = "update"
    /\ LET out == UpdateOutcome(matches, most_recent_file)
       IN \/ /\ most_recent_file' = out.file
             /\ IF out.result = "None"
                THEN /\ pc' = "export"
                     /\ log' = Append(log, "persist")
                     /\ UNCHANGED error
                ELSE /\ Crash(out.result)
                     /\ UNCHANGED log
          \* to_csv cannot open or write the file: OSError leaves main()
          \/ /\ out.result = "None"
             /\ Crash("OSError")
             /\ UNCHANGED <<most_recent_file, log>>
          \* the process is stopped while to_csv writes the file
          \/ /\ out.result = "None"
             /\ most_recent_file' \in InterruptedWrites(out.file)
             /\ Crash("Interrupted")
             /\ UNCHANGED log
    /\ UNCHANGED <<recordVars, upstream, csv_file, parserVars, callVars,
                   apiVars, cycle,
                   matches_df, newest_json, payloads, sent>>

\* line 39: match_parser.export_most_recent_match_to_json("newest_match.json")
MainExport ==
    /\ pc = "export"
    /\ newest_json' = export_most_recent_match_to_json(matches, newest_json)
    /\ pc' = "stats"
    /\ UNCHANGED <<recordVars, upstream, csv_file, most_recent_file, parserVars,
                   callVars, apiVars, cycle, matches_df, payloads, sent,
                   error, log>>

\* line 41: payloads = parser.parse_stats()
MainStats ==
    /\ pc = "stats"
    /\ IF HasClub(newest_json, TargetClub)
       THEN /\ payloads' = parse_stats(newest_json)
            /\ pc' = "send"
            /\ log' = Append(log, "extract")
            /\ UNCHANGED error
       ELSE /\ Crash("KeyError")
            /\ UNCHANGED <<payloads, log>>
    /\ UNCHANGED <<recordVars, upstream, csv_file, most_recent_file, parserVars,
                   callVars, apiVars, cycle, matches_df, newest_json, sent>>

\* lines 42-45: one iteration of the delivery loop; GoogleSheetsPayload.send()
\* returns the response or raises (request failure, raise_for_status)
MainSend ==
    /\ pc = "send"
    /\ payloads # << >>
    /\ \/ /\ sent' = Append(sent, [payload |-> Head(payloads),
                                   match_id |-> newest_json.match_id,
                                   cycle |-> cycle])
          /\ payloads' = Tail(payloads)
          /\ log' = Append(log, "deliver")
          /\ UNCHANGED <<pc, error>>
       \/ /\ Crash("RequestException")
          /\ UNCHANGED <<payloads, sent, log>>
       \* requests.post is called without a timeout: with no response ever
       \* arriving the call does not return
       \/ /\ pc' = "hung"
          /\ UNCHANGED <<payloads, sent, error, log>>
    /\ UNCHANGED <<recordVars, upstream, csv_file, most_recent_file, parserVars,
                   callVars, apiVars, cycle, matches_df, newest_json>>

\* the delivery loop is exhausted
MainSendDone ==
    /\ pc = "send"
    /\ payloads = << >>
    /\ pc' = "sleep"
    /\ UNCHANGED <<recordVars, upstream, csv_file, most_recent_file, parserVars,
                   callVars, apiVars, cycle, matches_df, newest_json,
                   payloads, sent,
                   error, log>>

\* line 47: time.sleep(30)
MainSleep ==
    /\ pc = "sleep"
    /\ pc' = "fetch"
    /\ UNCHANGED <<recordVars, upstream, csv_file, most_recent_file, parserVars,
                   callVars, apiVars, cycle, matches_df, newest_json,
                   payloads, sent,
                   error, log>>

NextMain ==
    \/ PlayMatch
    \/ MainFetch
    \/ MainSave
    \/ MainParse
    \/ MainCheck
    \/ MainUpdate
    \/ MainExport
    \/ MainStats
    \/ MainSend
    \/ MainSendDone
    \/ MainSleep

SpecMain == Init /\ [][NextMain]_vars

Next == NextParser \/ NextMain \/ NextNormalize

Spec == Init /\ [][Next]_vars

\* ================================================================ claims
\* views of the state used by the claims, taken from the files as text
HistoryIds == {most_recent_file.rows[i].matchId : i \in 1..Len(most_recent_file.rows)}
BatchIds == {matches[i].match_id[2] : i \in 1..Len(matches)}
HistoryKey(r) == <<r.matchId, r.player_id>>
RowsOf(file) == Range(file.rows)
Checked == lastCall.op = "check_for_new_matches"
Updated == lastCall.op = "update_most_recent_matches"

\* C1: with a non-empty batch and an existing history, the ids detection
\* classifies as new are exactly the batch ids absent from the history's match
\* ids, and it returns True iff there is one; ids all known give False
\* whatever the stats of the batch are.
C1_NewIffAbsentFromHistory ==
    (Checked /\ matches # << >> /\ most_recent_file.state = "table") =>
        /\ new_match_ids = {Str(n) : n \in BatchIds \ HistoryIds}
        /\ lastCall.result = IF BatchIds \ HistoryIds # {} THEN "True" ELSE "False"
        /\ new_matches_detected = (BatchIds \ HistoryIds # {})

\* C1 witness: match 1 is known with other stats than the batch carries and is
\* not new, match 2 is new.
C1_Witness ==
    /\ Checked /\ most_recent_file.state = "table"
    /\ new_match_ids = {Str(2)}
    /\ lastCall.result = "True"
    /\ \E i \in 1..Len(matches) : \E r \in RowsOf(most_recent_file) :
          /\ matches[i].match_id = Str(1)
          /\ r.matchId = 1
          /\ r.timeAgo # matches[i].time_ago

\* C2: with the history file absent or holding no match id, detection on a
\* non-empty batch returns True and sets new_matches_detected.
C2_FirstRunAllNew ==
    (Checked /\ matches # << >> /\ HistoryIds = {}) =>
        (lastCall.result = "True" /\ new_matches_detected)

\* C6: a second merge of the same batch right after a first one leaves the
\* same set of history rows.
C6_MergeIdempotent ==
    [][(/\ Updated /\ lastCall.result = "None"
        /\ calls' # calls
        /\ lastCall'.op = "update_most_recent_matches")
       => RowsOf(most_recent_file') = RowsOf(most_recent_file)]_vars

\* C7: the history holds at most one row per (matchId, playerId).
C7_OneRowPerKey ==
    \A i, j \in 1..Len(most_recent_file.rows) :
        HistoryKey(most_recent_file.rows[i]) = HistoryKey(most_recent_file.rows[j])
            => i = j

\* C8: after a merge that carries a row whose key was already persisted, the
\* one row persisted under that key is the row the batch carries for it (the
\* last one, should the batch carry several).
C8_LastWriteWins ==
    [][(/\ calls' # calls
        /\ lastCall'.op = "update_most_recent_matches"
        /\ lastCall'.result = "None")
       => LET merged == to_csv(current_matches_data(matches))
              last(k) == merged[CHOOSE i \in 1..Len(merged) :
                            /\ HistoryKey(merged[i]) = k
                            /\ \A j \in (i + 1)..Len(merged) :
                                  HistoryKey(merged[j]) # k]
          IN \A old \in RowsOf(most_recent_file) :
                (\E n \in Range(merged) : HistoryKey(n) = HistoryKey(old))
                => {r \in RowsOf(most_recent_file') :
                        HistoryKey(r) = HistoryKey(old)}
                   = {last(HistoryKey(old))}]_vars

\* C9: once a merge has completed, every match id of the batch is among the
\* match ids of the history.
C9_BatchKnownAfterMerge ==
    (Updated /\ lastCall.result = "None") => BatchIds \subseteq HistoryIds

\* C10: a detection call leaves the history file as it was, and a detection
\* that directly follows a detection returns what that one returned.
C10_DetectionReadOnly ==
    [][(calls' # calls /\ lastCall'.op = "check_for_new_matches")
       => /\ most_recent_file' = most_recent_file
          /\ Checked => lastCall'.result = lastCall.result]_vars

\* C10 witness: two detections in a row against an existing history, both
\* reporting a new match.
C10_Witness ==
    /\ Checked /\ prevCall.op = "check_for_new_matches"
    /\ most_recent_file.state = "table"
    /\ lastCall.result = "True"

\* C3: while payloads are sent, the exported match they derive from is one of
\* the matches this cycle's detection classified as new.  Stated for the
\* cycles whose fetch succeeded and for upstreams in which every match has
\* players, so that neither a failed fetch nor a match without history rows
\* plays a part.
C3_FactsFromNewMatch ==
    (/\ pc = "send"
     /\ matches_df = "data"
     /\ \A i \in 1..Len(upstream) : upstream[i] # NoPlayers)
    => newest_json.match_id \in new_match_ids

\* C4: a delivery that fails does not end the loop.
C4_DeliveryFailureContinues ==
    error = "RequestException" => pc # "crashed"

\* C5: in a cycle whose fetch failed nothing is normalised, the history is not
\* written, nothing is delivered and main() goes on.
C5_FetchFailureSkipsCycle ==
    [][(matches_df = "None" /\ pc # "fetch")
       => /\ matches' = matches
          /\ most_recent_file' = most_recent_file
          /\ sent' = sent
          /\ pc' \in {"save", "parse", "sleep", "fetch"}]_vars

\* a raw record that normalises: its players cell is the text of a mapping
\* and every numeric field a player carries is a numeral
C11_Normalizes(row) ==
    /\ row.players.kind = "text"
    /\ \A c \in 1..Len(row.players.body) :
          \A k \in 1..Len(row.players.body[c][2]) :
             LET stats == row.players.body[c][2][k][2]
             IN \A f \in NumericFields \cap DOMAIN stats :
                   \/ stats[f][1] = "numeral"
                   \/ stats[f][2][1] = "str"

\* C11: parse_csv() returns normally whatever records the file holds, and it
\* appends to the list exactly the records that normalise, in the order of
\* the file; a record with a missing players cell, with text that is no
\* literal or with a non-numeric numeric field is left out on its own.
C11_BadRecordSkipped ==
    [][(calls' # calls /\ lastCall'.op = "parse_csv" /\ csv_file.state = "table")
       => LET df == read_club_matches(csv_file)
              good == KeepIndices(df, {i \in 1..Len(df) : C11_Normalizes(df[i])}, 1)
          IN /\ lastCall'.result = "matches"
             /\ matches' = matches \o [i \in 1..Len(good) |->
                                          parse_match_row(good[i]).match]]_vars

\* C11 witness: a file of a bad record followed by a good one has been
\* parsed and the list holds the good one alone.
C11_Witness ==
    /\ lastCall.op = "parse_csv" /\ calls = 1
    /\ Len(csv_file.rows) = 2
    /\ ~C11_Normalizes(csv_file.rows[1])
    /\ C11_Normalizes(csv_file.rows[2])
    /\ Len(matches) = 1
    /\ matches[1].match_id = Str(2)
    /\ matches[1].players_by_club # << >>

\* C12: a failure to write the history file during main()'s update step does
\* not end main().
C12_WriteFailureContinues ==
    error = "OSError" => pc # "crashed"

\* C13: whatever happens while update_most_recent_matches() runs, the history
\* file afterwards is the file from before the merge or the complete file the
\* merge writes.
C13_AtomicHistoryWrite ==
    [][pc = "update"
       => most_recent_file' \in
             {most_recent_file, UpdateOutcome(matches, most_recent_file).file}]_vars

\* the payloads C14 expects of the exported match: for each player listed
\* under the target club, in order, the five tracked stats in order
C14_Expected ==
    LET club == {c \in 1..Len(newest_json.clubs) :
                    newest_json.clubs[c][1] = "3439844"}
        players == IF club = {} THEN << >>
                   ELSE newest_json.clubs[CHOOSE c \in club : TRUE][2]
    IN Flatten([k \in 1..Len(players) |->
           << <<players[k].player_name, "Goals", players[k].goals>>,
              <<players[k].player_name, "Assists", players[k].assists>>,
              <<players[k].player_name, "Passes", players[k].passes>>,
              <<players[k].player_name, "Tackles", players[k].tackles>>,
              <<players[k].player_name, "Redcards", players[k].redcards>> >>])

\* C14: the payloads parse_stats() returns for the exported match are one
\* per (player, tracked stat), for the players of the target club only, player
\* by player and within a player in the order of the stat list, each made of
\* the player's name, the stat's label and the value.
C14_PayloadPerPlayerStat ==
    [][(pc = "stats" /\ pc' = "send") => payloads' = C14_Expected]_vars

\* C14 witness: the payloads of a match with Alice (goals 2, assists 1) and
\* Carol in the target club start with Alice's goals and assists and go on
\* to Carol's five.
C14_Witness ==
    /\ pc = "send" /\ Len(payloads) = 10
    /\ payloads[1] = <<"Alice", "Goals", 2>>
    /\ payloads[2] = <<"Alice", "Assists", 1>>
    /\ payloads[6] = <<"Carol", "Goals", 0>>

\* C15: the payloads of one match id are accepted by the sink in one cycle
\* only (a write failure or an interruption of the history write ends
\* main(), so every cycle that sends follows successful writes).  Stated for
\* upstreams in which every match has players, whose rows the history then
\* holds after the first cycle that sends.
C15_MatchSentInOneCycle ==
    (\A n \in 1..Len(upstream) : upstream[n] # NoPlayers)
    => \A i, j \in 1..Len(sent) :
          sent[i].match_id = sent[j].match_id => sent[i].cycle = sent[j].cycle

\* C16: when detection and merge run in a cycle whose fetch succeeded, the
\* list of the parser holds the records normalised from the file that fetch
\* wrote and nothing else.
C16_BatchIsThisCyclesFetch ==
    (pc \in {"check", "update"} /\ matches_df = "data")
        => matches = ParsedInto(<< >>, csv_file)

\* the steps of the log follow one another in the order of steps, none
\* without every step that comes before it in steps
C17_InOrder(steps) ==
    LET rank(x) == CHOOSE n \in 1..Len(steps) : steps[n] = x
    IN /\ \A i, j \in 1..Len(log) : i < j => rank(log[i]) <= rank(log[j])
       /\ \A i \in 1..Len(log) : \A n \in 1..(rank(log[i]) - 1) :
              \E j \in 1..(i - 1) : log[j] = steps[n]

\* C17 as stated: in a cycle the steps happen in the order detect, extract,
\* persist, deliver.
C17_DetectExtractPersistDeliver ==
    C17_InOrder(<<"detect", "extract", "persist", "deliver">>)

\* C17 as amended: in a cycle the steps happen in the order detect, persist,
\* extract, deliver: the merge is written before the facts are extracted and
\* the facts are extracted before the first payload is sent.
C17_DetectPersistExtractDeliver ==
    C17_InOrder(<<"detect", "persist", "extract", "deliver">>)

\* C17 witness: a cycle that detected, persisted, extracted and delivered.
C17_Witness ==
    /\ Len(log) >= 4
    /\ SubSeq(log, 1, 4) = <<"detect", "persist", "extract", "deliver">>

\* the (matchId, player_id) keys of a history file
C18_Keys(file) == {HistoryKey(r) : r \in RowsOf(file)}

\* C18: a merge leaves every (matchId, player_id) key of the history file in
\* the file.
C18_KeysOnlyGrow ==
    [][(calls' # calls /\ lastCall'.op = "update_most_recent_matches")
       => C18_Keys(most_recent_file) \subseteq C18_Keys(most_recent_file')]_vars

\* C18 witness: a merge onto a history that held match 1 has added match 2
\* and the rows persisted for match 1 before it are still there.
C18_Witness ==
    /\ Updated /\ lastCall.result = "None" /\ calls = MaxCalls
    /\ HistoryIds = {1, 2}
    /\ \E i, j \in 1..Len(most_recent_file.rows) :
          /\ i < j
          /\ most_recent_file.rows[i].matchId = 1
          /\ most_recent_file.rows[j].matchId = 1
          /\ most_recent_file.rows[i].timeAgo # most_recent_file.rows[j].timeAgo

\* C19: no network operation of main() blocks for ever.
C19_NoCallHangs ==
    pc # "hung"

\* C20: _parse_match_row gives the same result (the same MatchData, or a
\* failure in both cases) for a record with a structured players mapping and
\* for the record carrying the literal text of that mapping.
C20_LiteralEqualsStructured ==
    match_data.done => match_data.literal = match_data.structured

\* C20 witness: a record with a structured mapping of players has been
\* normalised both ways into a MatchData with players.
C20_Witness ==
    /\ match_data.done
    /\ record.players.kind = "dict"
    /\ match_data.structured.ok
    /\ match_data.literal.match.players_by_club # << >>

\* the value C21 expects for a numeric field of a stat map: the number of the
\* numeral it carries, 0 when the map lacks the field
C21_Number(stats, field) ==
    IF field \in DOMAIN stats THEN stats[field][2] ELSE 0

\* C21: a record whose stat maps carry numerals in the numeric fields they
\* have normalises whatever fields they lack; a missing name or position
\* becomes "Unknown", a missing archetype "0", a missing numeric field 0, and
\* every value present is kept as it is.
C21_MissingFieldsDefault ==
    LET lineup == record.players.body
    IN (/\ match_data.done
        /\ record.players.kind = "dict"
        /\ \A c \in 1..Len(lineup) : \A k \in 1..Len(lineup[c][2]) :
              \A f \in NumericFields \cap DOMAIN lineup[c][2][k][2] :
                 lineup[c][2][k][2][f][1] \in {"str", "int"})
       => /\ match_data.structured.ok
          /\ \A c \in 1..Len(lineup) : \A k \in 1..Len(lineup[c][2]) :
                LET stats == lineup[c][2][k][2]
                    player == match_data.structured.match.players_by_club[c][2][k]
                IN /\ player.player_name =
                         IF "playername" \in DOMAIN stats
                         THEN stats.playername ELSE "Unknown"
                   /\ player.position =
                         IF "pos" \in DOMAIN stats THEN stats.pos ELSE "Unknown"
                   /\ player.archetype_id =
                         IF "archetypeid" \in DOMAIN stats
                         THEN stats.archetypeid ELSE <<"str", 0>>
                   /\ player.goals = C21_Number(stats, "goals")
                   /\ player.assists = C21_Number(stats, "assists")
                   /\ player.passes = C21_Number(stats, "passesmade")
                   /\ player.pass_attempts = C21_Number(stats, "passattempts")
                   /\ player.tackles = C21_Number(stats, "tacklesmade")
                   /\ player.redcards = C21_Number(stats, "redcards")

\* C21 witness: stat maps lacking fields have been normalised: Dave without
\* position, archetype and assists keeps 9 passes made of 5 attempted, and a
\* player without a name is "Unknown".
C21_Witness ==
    /\ match_data.done /\ match_data.structured.ok
    /\ record.players.kind = "dict"
    /\ \E c \in 1..Len(match_data.structured.match.players_by_club) :
          LET players == match_data.structured.match.players_by_club[c][2]
          IN /\ Len(players) = 2
             /\ players[1].player_name = "Dave"
             /\ players[1].position = "Unknown"
             /\ players[1].archetype_id = <<"str", 0>>
             /\ players[1].assists = 0
             /\ players[1].passes = 9
             /\ players[1].pass_attempts = 5
             /\ players[2].player_name = "Unknown"
             /\ players[2].position = "midfielder"

\* every player of a MatchData carries the club key it is listed under
C22_ClubIdIsKey(m) ==
    \A c \in 1..Len(m.players_by_club) :
        \A k \in 1..Len(m.players_by_club[c][2]) :
            m.players_by_club[c][2][k].club_id = m.players_by_club[c][1]

\* C22: in every MatchData _parse_match_row has produced, and in every
\* MatchData of the list after any number of parse_csv() calls, each player
\* listed under a club key has that key as club_id.
C22_PlayersCarryClubKey ==
    /\ \A i \in 1..Len(matches) : C22_ClubIdIsKey(matches[i])
    /\ match_data.done =>
          /\ C22_ClubIdIsKey(match_data.structured.match)
          /\ C22_ClubIdIsKey(match_data.literal.match)

\* C22 witness: the list holds a match with players under two club keys.
C22_Witness ==
    \E i \in 1..Len(matches) :
        /\ Len(matches[i].players_by_club) = 2
        /\ matches[i].players_by_club[1][1] # matches[i].players_by_club[2][1]
        /\ matches[i].players_by_club[1][2] # << >>
        /\ matches[i].players_by_club[2][2] # << >>

\* C24: after a check_for_new_matches() call that returned, the
\* new_matches_detected flag of the parser is the value it returned, also when
\* it returned early on an empty list.
C24_FlagIsLastResult ==
    (Checked /\ lastCall.result \in {"True", "False"})
        => new_matches_detected = (lastCall.result = "True")

\* C24 witness: a detection that followed a merge of the batch has returned
\* False on a non-empty list and the flag is down.
C24_Witness ==
    /\ Checked /\ lastCall.result = "False"
    /\ prevCall.op = "update_most_recent_matches"
    /\ matches # << >>
    /\ most_recent_file.state = "table"
    /\ ~new_matches_detected

\* C24, early return: a detection on an empty list has returned False and the
\* flag is down.
C24_WitnessEmptyBatch ==
    Checked /\ matches = << >> /\ lastCall.result = "False"
        /\ ~new_matches_detected

\* C23: a call of get_club_matches_normalized() returns; it returns None when
\* the request failed, the status was no 2xx, the body was no JSON or the rows
\* lacked the timestamp or the clubs column; and _last_error after it is None
\* when it returned a DataFrame and the error when it returned None.
C23_FailuresBecomeNone ==
    [][(pc = "fetch" /\ pc' # "fetch")
       => /\ pc' = "save"
          /\ response' \in {"timeout", "http_error", "bad_json"}
                => matches_df' = "None"
          /\ (response' \in {"no_timestamp", "no_clubs"} /\ upstream # << >>)
                => matches_df' = "None"
          /\ matches_df' \in {"empty", "data"} => last_error' = "None"
          /\ matches_df' = "None" => last_error' # "None"]_vars

\* C23 witness: in a later cycle the upstream has answered with rows that
\* lack the clubs column, the call has returned None and _last_error holds
\* the error.
C23_Witness ==
    /\ pc = "save" /\ cycle > 1
    /\ response = "no_clubs"
    /\ matches_df = "None"
    /\ last_error = "Expected nested column 'clubs' missing"

====
